---------------------------- MODULE Spec2Model ----------------------------
(***************************************************************************)
(* @safechat/client: the AES-256-GCM envelope codec (src/crypto.ts) and   *)
(* the HTTP transport of the client (SafeChat.request in src/client.ts).  *)
(*                                                                         *)
(* Strings are sequences of UTF-16 code units, buffers are sequences of   *)
(* bytes (0..255).  Base64, UTF-8 and JSON are computed on them.          *)
(* node:crypto's AES-256-GCM is outside the repository; it is abstracted  *)
(* to a keystream cipher with a 16-byte keyed checksum over (key, iv,     *)
(* data) that keeps what crypto.ts relies on: the lengths it accepts,     *)
(* length-preserving encryption and verification by recomputation.        *)
(***************************************************************************)
EXTENDS Integers, Sequences, FiniteSets, TLC

(***************************************************************************)
(* Bounds of the model.                                                    *)
(***************************************************************************)
\* longest plaintext string (in UTF-16 code units) given to encrypt
MaxLen == 2
\* how many values the random source can return for a nonce
NumNonces == 2
\* how many encrypt calls one codec run makes
MaxEncrypts == 2

(***************************************************************************)
(* Program constants.                                                      *)
(***************************************************************************)
IV_BYTES == 12
KEY_BYTES == 32
TAG_BYTES == 16
DEFAULT_TIMEOUT == 30000

\* a field that is absent from an object (JavaScript's undefined)
Undefined == <<-1>>

Min(a, b) == IF a < b THEN a ELSE b

(***************************************************************************)
(* Base64 (Buffer.toString('base64') and Buffer.from(s, 'base64')).        *)
(***************************************************************************)
B64Char(s) ==
    IF s < 26 THEN 65 + s
    ELSE IF s < 52 THEN 97 + (s - 26)
    ELSE IF s < 62 THEN 48 + (s - 52)
    ELSE IF s = 62 THEN 43 ELSE 47

\* the sextet a character stands for, -1 for a character outside the alphabet
\* (Node also reads the URL-safe '-' and '_')
B64Value(c) ==
    IF c >= 65 /\ c <= 90 THEN c - 65
    ELSE IF c >= 97 /\ c <= 122 THEN c - 71
    ELSE IF c >= 48 /\ c <= 57 THEN c + 4
    ELSE IF c = 43 \/ c = 45 THEN 62
    ELSE IF c = 47 \/ c = 95 THEN 63
    ELSE -1

ByteAt(bytes, i) == IF i <= Len(bytes) THEN bytes[i] ELSE 0

Base64Encode(bytes) ==
    LET n == Len(bytes)
        Out(j) ==
            LET g   == (j - 1) \div 4
                pos == (j - 1) % 4
                b1  == ByteAt(bytes, 3 * g + 1)
                b2  == ByteAt(bytes, 3 * g + 2)
                b3  == ByteAt(bytes, 3 * g + 3)
            IN  CASE pos = 0 -> B64Char(b1 \div 4)
                  [] pos = 1 -> B64Char((b1 % 4) * 16 + (b2 \div 16))
                  [] pos = 2 -> IF 3 * g + 2 > n THEN 61
                                ELSE B64Char((b2 % 16) * 4 + (b3 \div 64))
                  [] OTHER   -> IF 3 * g + 3 > n THEN 61 ELSE B64Char(b3 % 64)
    IN  [j \in 1..(4 * ((n + 2) \div 3)) |-> Out(j)]

\* the part of a string before its first '='
BeforePad(s) ==
    LET pads == {i \in 1..Len(s) : s[i] = 61}
    IN  IF pads = {} THEN s
        ELSE SubSeq(s, 1, (CHOOSE i \in pads : \A j \in pads : i <= j) - 1)

IsB64Char(c) == B64Value(c) >= 0

\* Node's forgiving decoder: characters outside the alphabet are skipped,
\* decoding stops at the first '=', a lone trailing sextet is dropped
Base64Decode(s) ==
    LET chars == SelectSeq(BeforePad(s), IsB64Char)
        m     == Len(chars)
        v(q)  == B64Value(chars[q])
        Out(i) ==
            LET q == (((i - 1) * 8) \div 6) + 1
                r == ((i - 1) * 8) % 6
            IN  CASE r = 0 -> v(q) * 4 + (v(q + 1) \div 16)
                  [] r = 2 -> (v(q) % 16) * 16 + (v(q + 1) \div 4)
                  [] OTHER -> (v(q) % 4) * 64 + v(q + 1)
    IN  [i \in 1..((m * 6) \div 8) |-> Out(i)]

(***************************************************************************)
(* UTF-8 (cipher.update(plaintext, 'utf8') and Buffer.toString('utf8')).   *)
(***************************************************************************)
IsHighSurrogate(u) == u >= 55296 /\ u <= 56319
IsLowSurrogate(u) == u >= 56320 /\ u <= 57343

\* a string is well formed when every surrogate is part of a pair
RECURSIVE WellFormed(_)
WellFormed(s) ==
    IF s = <<>> THEN TRUE
    ELSE IF IsHighSurrogate(s[1])
         THEN Len(s) >= 2 /\ IsLowSurrogate(s[2]) /\ WellFormed(SubSeq(s, 3, Len(s)))
    ELSE ~IsLowSurrogate(s[1]) /\ WellFormed(Tail(s))

RECURSIVE Utf8Encode(_)
Utf8Encode(s) ==
    IF s = <<>> THEN <<>>
    ELSE LET u == s[1]
         IN  IF u < 128 THEN <<u>> \o Utf8Encode(Tail(s))
             ELSE IF u < 2048
                  THEN <<192 + (u \div 64), 128 + (u % 64)>> \o Utf8Encode(Tail(s))
             ELSE IF IsHighSurrogate(u) /\ Len(s) >= 2 /\ IsLowSurrogate(s[2])
                  THEN LET cp == 65536 + (u - 55296) * 1024 + (s[2] - 56320)
                       IN  <<240 + (cp \div 262144), 128 + ((cp \div 4096) % 64),
                             128 + ((cp \div 64) % 64), 128 + (cp % 64)>>
                           \o Utf8Encode(SubSeq(s, 3, Len(s)))
             ELSE IF IsHighSurrogate(u) \/ IsLowSurrogate(u)
                  \* an unpaired surrogate is written as U+FFFD
                  THEN <<239, 191, 189>> \o Utf8Encode(Tail(s))
             ELSE <<224 + (u \div 4096), 128 + ((u \div 64) % 64), 128 + (u % 64)>>
                  \o Utf8Encode(Tail(s))

IsCont(b) == b >= 128 /\ b <= 191

\* how many continuation bytes the lead byte asks for (0: not a lead byte)
Utf8Need(b) ==
    IF b >= 194 /\ b <= 223 THEN 1
    ELSE IF b >= 224 /\ b <= 239 THEN 2
    ELSE IF b >= 240 /\ b <= 244 THEN 3
    ELSE 0

\* the range the byte after the lead byte must lie in
Utf8SecondOk(lead, b) ==
    CASE lead = 224 -> b >= 160 /\ b <= 191
      [] lead = 237 -> b >= 128 /\ b <= 159
      [] lead = 240 -> b >= 144 /\ b <= 191
      [] lead = 244 -> b >= 128 /\ b <= 143
      [] OTHER      -> IsCont(b)

\* the number of acceptable bytes that follow the lead byte bs[1], at most need
Utf8Follow(bs, need) ==
    IF need >= 1 /\ Len(bs) >= 2 /\ Utf8SecondOk(bs[1], bs[2])
    THEN IF need >= 2 /\ Len(bs) >= 3 /\ IsCont(bs[3])
         THEN IF need >= 3 /\ Len(bs) >= 4 /\ IsCont(bs[4]) THEN 3 ELSE 2
         ELSE 1
    ELSE 0

\* a variant of Utf8Decode: toString('latin1'), one character per byte
Latin1Decode(bs) == bs

RECURSIVE Utf8Decode(_)
Utf8Decode(bs) ==
    IF bs = <<>> THEN <<>>
    ELSE LET b    == bs[1]
             need == Utf8Need(b)
             got  == Utf8Follow(bs, need)
             rest(k) == Utf8Decode(SubSeq(bs, k + 1, Len(bs)))
         IN  IF b < 128 THEN <<b>> \o rest(1)
             ELSE IF need = 0 THEN <<65533>> \o rest(1)
             ELSE IF got < need THEN <<65533>> \o rest(1 + got)
             ELSE IF need = 1
                  THEN <<(b - 192) * 64 + (bs[2] - 128)>> \o rest(2)
             ELSE IF need = 2
                  THEN <<(b - 224) * 4096 + (bs[2] - 128) * 64 + (bs[3] - 128)>>
                       \o rest(3)
             ELSE LET cp == (b - 240) * 262144 + (bs[2] - 128) * 4096
                            + (bs[3] - 128) * 64 + (bs[4] - 128)
                  IN  <<55296 + ((cp - 65536) \div 1024),
                        56320 + ((cp - 65536) % 1024)>> \o rest(4)

(***************************************************************************)
(* Results of calls that may throw, and the errors the code throws.        *)
(*   InvalidKeyLength      Error('Invalid encryption key: expected 32      *)
(*                         bytes (256-bit), got N'), info = <<32, N>>      *)
(*   AuthenticationFailed  decipher.final(): 'Unsupported state or unable  *)
(*                         to authenticate data'                           *)
(*   InvalidIV, InvalidAuthTag   createDecipheriv / setAuthTag rejections  *)
(*   TypeError             Buffer.from of a non-string, a property of null *)
(*   SyntaxError           JSON.parse, Response.json                        *)
(***************************************************************************)
NoInfo == <<>>
NoError == [name |-> "none", info |-> NoInfo]
Err(name, info) == [name |-> name, info |-> info]
Ok(v) == [ok |-> TRUE, value |-> v, error |-> NoError]
Throw(e) == [ok |-> FALSE, value |-> Undefined, error |-> e]

(***************************************************************************)
(* AES-256-GCM as crypto.ts uses it (createCipheriv, update, final,        *)
(* getAuthTag, setAuthTag).                                                 *)
(***************************************************************************)
RECURSIVE WeightedSum(_, _)
WeightedSum(bytes, j) ==
    IF j > Len(bytes) THEN 0
    ELSE (2 * j - 1) * bytes[j] + WeightedSum(bytes, j + 1)

\* byte i of the keystream of a key and an iv, mix being the iv's part in it
KeyStream(key, mix, i) == (key[((i - 1) % KEY_BYTES) + 1] + mix + 7 * i) % 256

\* cipher.update + cipher.final: the ciphertext has the plaintext's length
GcmEncrypt(key, iv, input) ==
    LET mix == WeightedSum(iv, 1) % 256
    IN  [i \in 1..Len(input) |-> (input[i] + KeyStream(key, mix, i)) % 256]

GcmDecrypt(key, iv, input) ==
    LET mix == WeightedSum(iv, 1) % 256
    IN  [i \in 1..Len(input) |-> (input[i] + 256 - KeyStream(key, mix, i)) % 256]

\* cipher.getAuthTag(): 16 bytes bound to the key, the iv and the ciphertext
GcmTag(key, iv, data) ==
    LET sum == (WeightedSum(data, 1) + Len(iv) + Len(data)) % 256
    IN  [j \in 1..TAG_BYTES |->
            (key[j] + 3 * key[j + TAG_BYTES] + ByteAt(iv, j) + (2 * j + 1) * sum)
            % 256]

\* the tag lengths setAuthTag accepts for GCM when no authTagLength is given
ValidGcmTagLength(n) == n = 4 \/ n = 8 \/ (n >= 12 /\ n <= 16)

\* a variant of GcmVerify: the tag is not checked (a cipher without
\* authentication, such as aes-256-ctr)
NoVerify(key, iv, data, tag) == TRUE

\* decipher.final(): the given tag is compared with the computed one over the
\* given tag's length
GcmVerify(key, iv, data, tag) ==
    tag = SubSeq(GcmTag(key, iv, data), 1, Len(tag))

(***************************************************************************)
(* JSON values: null, booleans, non-negative integers, strings and objects *)
(* (a sequence of members).  A member whose value is JUndefined is a       *)
(* property set to undefined.                                               *)
(***************************************************************************)
JVal(t, n, s, o) == [t |-> t, n |-> n, s |-> s, o |-> o]
JUndefined == JVal("undefined", 0, <<>>, <<>>)
JNull == JVal("null", 0, <<>>, <<>>)
JTrue == JVal("true", 0, <<>>, <<>>)
JFalse == JVal("false", 0, <<>>, <<>>)
JNum(n) == JVal("num", n, <<>>, <<>>)
JStr(s) == JVal("str", 0, s, <<>>)
JObj(members) == JVal("obj", 0, <<>>, members)
Member(k, v) == [k |-> k, v |-> v]

\* obj[key]: the last member of that name, undefined when there is none or
\* when obj is not an object
RECURSIVE GetMember(_, _)
GetMember(members, key) ==
    IF members = <<>> THEN JUndefined
    ELSE LET last == members[Len(members)]
         IN  IF last.k = key THEN last.v
             ELSE GetMember(SubSeq(members, 1, Len(members) - 1), key)

Get(obj, key) == IF obj.t = "obj" THEN GetMember(obj.o, key) ELSE JUndefined

HexDigit(d) == IF d < 10 THEN 48 + d ELSE 87 + d

HexValue(c) ==
    IF c >= 48 /\ c <= 57 THEN c - 48
    ELSE IF c >= 97 /\ c <= 102 THEN c - 87
    ELSE IF c >= 65 /\ c <= 70 THEN c - 55
    ELSE -1

\* \uXXXX
UEscape(u) ==
    <<92, 117, HexDigit(u \div 4096), HexDigit((u \div 256) % 16),
      HexDigit((u \div 16) % 16), HexDigit(u % 16)>>

\* JSON.stringify's QuoteJSONString without the quotes: '"' and '\' are
\* escaped, control characters and unpaired surrogates are written \uXXXX
RECURSIVE JsonEscape(_)
JsonEscape(s) ==
    IF s = <<>> THEN <<>>
    ELSE LET u == s[1]
         IN  IF u = 34 \/ u = 92 THEN <<92, u>> \o JsonEscape(Tail(s))
             ELSE IF u < 32 THEN UEscape(u) \o JsonEscape(Tail(s))
             ELSE IF IsHighSurrogate(u) /\ Len(s) >= 2 /\ IsLowSurrogate(s[2])
                  THEN <<u, s[2]>> \o JsonEscape(SubSeq(s, 3, Len(s)))
             ELSE IF IsHighSurrogate(u) \/ IsLowSurrogate(u)
                  THEN UEscape(u) \o JsonEscape(Tail(s))
             ELSE <<u>> \o JsonEscape(Tail(s))

JsonQuote(s) == <<34>> \o JsonEscape(s) \o <<34>>

RECURSIVE Digits(_)
Digits(n) == IF n < 10 THEN <<48 + n>> ELSE Digits(n \div 10) \o <<48 + (n % 10)>>

\* JSON.stringify: members set to undefined are left out
RECURSIVE JsonStringify(_)
RECURSIVE StringifyMembers(_, _)
StringifyMembers(members, first) ==
    IF members = <<>> THEN <<>>
    ELSE LET m == Head(members)
         IN  IF m.v.t = "undefined" THEN StringifyMembers(Tail(members), first)
             ELSE (IF first THEN <<>> ELSE <<44>>)
                  \o JsonQuote(m.k) \o <<58>> \o JsonStringify(m.v)
                  \o StringifyMembers(Tail(members), FALSE)

JsonStringify(v) ==
    CASE v.t = "null"  -> <<110, 117, 108, 108>>
      [] v.t = "true"  -> <<116, 114, 117, 101>>
      [] v.t = "false" -> <<102, 97, 108, 115, 101>>
      [] v.t = "num"   -> Digits(v.n)
      [] v.t = "str"   -> JsonQuote(v.s)
      [] OTHER         -> <<123>> \o StringifyMembers(v.o, TRUE) \o <<125>>

(***************************************************************************)
(* JSON.parse on the same values.  A parse step returns [ok, v, next]:     *)
(* the value read and the index after it.                                   *)
(***************************************************************************)
Parsed(v, next) == [ok |-> TRUE, v |-> v, next |-> next]
ParseFail == [ok |-> FALSE, v |-> JUndefined, next |-> 0]

CharAt(s, i) == IF i >= 1 /\ i <= Len(s) THEN s[i] ELSE -1

HasAt(s, i, word) ==
    /\ i + Len(word) - 1 <= Len(s)
    /\ SubSeq(s, i, i + Len(word) - 1) = word

\* the characters of a string literal from index i (after the opening quote)
\* up to its closing quote
RECURSIVE ParseChars(_, _, _)
ParseChars(s, i, acc) ==
    LET c == CharAt(s, i)
    IN  IF c = -1 \/ (c >= 0 /\ c < 32) THEN ParseFail
        ELSE IF c = 34 THEN Parsed(JStr(acc), i + 1)
        ELSE IF c = 92
             THEN LET e == CharAt(s, i + 1)
                  IN  IF e = 34 \/ e = 92 \/ e = 47
                      THEN ParseChars(s, i + 2, Append(acc, e))
                      ELSE IF e = 117
                              /\ \A k \in 2..5 : HexValue(CharAt(s, i + k)) >= 0
                      THEN ParseChars(s, i + 6,
                               Append(acc, HexValue(s[i + 2]) * 4096
                                           + HexValue(s[i + 3]) * 256
                                           + HexValue(s[i + 4]) * 16
                                           + HexValue(s[i + 5])))
                      ELSE ParseFail
        ELSE ParseChars(s, i + 1, Append(acc, c))

IsDigit(c) == c >= 48 /\ c <= 57

RECURSIVE ParseDigits(_, _, _)
ParseDigits(s, i, acc) ==
    IF IsDigit(CharAt(s, i)) THEN ParseDigits(s, i + 1, acc * 10 + (s[i] - 48))
    ELSE Parsed(JNum(acc), i)

RECURSIVE ParseValue(_, _)
RECURSIVE ParseMembers(_, _, _)
\* the members of an object from index i: "key":value, separated by commas,
\* closed by '}'
ParseMembers(s, i, acc) ==
    IF CharAt(s, i) # 34 THEN ParseFail
    ELSE LET key == ParseChars(s, i + 1, <<>>)
         IN  IF ~key.ok \/ CharAt(s, key.next) # 58 THEN ParseFail
             ELSE LET val == ParseValue(s, key.next + 1)
                  IN  IF ~val.ok THEN ParseFail
                      ELSE LET members == Append(acc, Member(key.v.s, val.v))
                               c == CharAt(s, val.next)
                           IN  IF c = 125 THEN Parsed(JObj(members), val.next + 1)
                               ELSE IF c = 44
                                    THEN ParseMembers(s, val.next + 1, members)
                               ELSE ParseFail

ParseValue(s, i) ==
    LET c == CharAt(s, i)
    IN  CASE c = 123 -> IF CharAt(s, i + 1) = 125 THEN Parsed(JObj(<<>>), i + 2)
                        ELSE ParseMembers(s, i + 1, <<>>)
          [] c = 34  -> ParseChars(s, i + 1, <<>>)
          [] c = 110 -> IF HasAt(s, i, <<110, 117, 108, 108>>)
                        THEN Parsed(JNull, i + 4) ELSE ParseFail
          [] c = 116 -> IF HasAt(s, i, <<116, 114, 117, 101>>)
                        THEN Parsed(JTrue, i + 4) ELSE ParseFail
          [] c = 102 -> IF HasAt(s, i, <<102, 97, 108, 115, 101>>)
                        THEN Parsed(JFalse, i + 5) ELSE ParseFail
          [] IsDigit(c) -> IF c = 48 /\ IsDigit(CharAt(s, i + 1)) THEN ParseFail
                           ELSE ParseDigits(s, i, 0)
          [] OTHER   -> ParseFail

\* JSON.parse(text): the value, or a SyntaxError
JsonParse(text) ==
    LET r == ParseValue(text, 1)
    IN  IF r.ok /\ r.next = Len(text) + 1 THEN Ok(r.v)
        ELSE Throw(Err("SyntaxError", NoInfo))

(***************************************************************************)
(* src/crypto.ts                                                            *)
(***************************************************************************)
IvName == <<105, 118>>
TagName == <<116, 97, 103>>
DataName == <<100, 97, 116, 97>>

\* interface EncryptedPayload { iv, tag, data }, each base64
EncryptedPayload(iv, tag, data) ==
    JObj(<<Member(IvName, JStr(iv)), Member(TagName, JStr(tag)),
           Member(DataName, JStr(data))>>)

\* randomBytes(n): the values the random source can return
RandomBytes(n) ==
    {[i \in 1..n |-> (37 * x + 11 * i) % 256] : x \in 0..(NumNonces - 1)}

\* Buffer.from(x, 'base64'): a TypeError unless x is a string
BufferFromBase64(x) ==
    IF x.t = "str" THEN Ok(Base64Decode(x.s)) ELSE Throw(Err("TypeError", NoInfo))

\* a variant of KeyRejected: only keys that are too short are rejected
KeyTooShort(key) == Len(key) < KEY_BYTES

\* `key.length !== 32`
KeyRejected(key) == Len(key) # KEY_BYTES

\* the Error thrown for a rejected key: the expected and the actual length
InvalidKey(key) == Throw(Err("InvalidKeyLength", <<KEY_BYTES, Len(key)>>))

\* lines 23-30: the payload of a plaintext under a key and an iv
Seal(key, iv, plaintext) ==
    LET encrypted == GcmEncrypt(key, iv, Utf8Encode(plaintext))
        tag       == GcmTag(key, iv, encrypted)
    IN  EncryptedPayload(Base64Encode(iv), Base64Encode(tag),
                         Base64Encode(encrypted))

\* a variant of encrypt: the iv is a constant instead of fresh random bytes
encryptFixedIv(plaintext, keyBase64, random) ==
    LET key == Base64Decode(keyBase64)
    IN  IF KeyRejected(key) THEN InvalidKey(key)
        ELSE Ok(Seal(key, [i \in 1..IV_BYTES |-> 0], plaintext))

\* encrypt(plaintext, keyBase64); random is what randomBytes(IV_BYTES) returns
\* in this call
encrypt(plaintext, keyBase64, random) ==
    LET key == Base64Decode(keyBase64)
    IN  IF KeyRejected(key) THEN InvalidKey(key)
        ELSE Ok(Seal(key, random, plaintext))

\* decrypt(payload, keyBase64)
decrypt(payload, keyBase64) ==
    LET key == Base64Decode(keyBase64)
    IN  IF KeyRejected(key) THEN InvalidKey(key)
        ELSE IF payload.t \in {"null", "undefined"}
        THEN Throw(Err("TypeError", NoInfo))
        ELSE LET iv == BufferFromBase64(Get(payload, IvName))
             IN  IF ~iv.ok THEN iv
                 ELSE IF Len(iv.value) = 0 THEN Throw(Err("InvalidIV", NoInfo))
                 ELSE LET tag == BufferFromBase64(Get(payload, TagName))
                      IN  IF ~tag.ok THEN tag
                          ELSE IF ~ValidGcmTagLength(Len(tag.value))
                          THEN Throw(Err("InvalidAuthTag", <<Len(tag.value)>>))
                          ELSE LET data == BufferFromBase64(Get(payload, DataName))
                               IN  IF ~data.ok THEN data
                                   ELSE IF ~GcmVerify(key, iv.value, data.value,
                                                      tag.value)
                                   THEN Throw(Err("AuthenticationFailed", NoInfo))
                                   ELSE Ok(Utf8Decode(GcmDecrypt(key, iv.value,
                                                                 data.value)))

(***************************************************************************)
(* Inputs of the codec.                                                     *)
(***************************************************************************)
\* the code units strings are made of: 'a', e-acute, and the two halves of
\* the surrogate pair of U+1F30D
CodeUnits == {97, 233, 55356, 57101}

RECURSIVE StringsOfLen(_)
StringsOfLen(n) ==
    IF n = 0 THEN {<<>>}
    ELSE {Append(s, u) : s \in StringsOfLen(n - 1), u \in CodeUnits}

Strings == UNION {StringsOfLen(n) : n \in 0..MaxLen}

Fill(n, b) == [i \in 1..n |-> b]

\* the key of the tests (32 bytes 0xab), another 32-byte key, the 16-byte
\* key of the tests, an empty key and a 33-byte key
KeyAB == Base64Encode(Fill(32, 171))
KeyCD == Base64Encode(Fill(32, 205))
ShortKey == Base64Encode(Fill(16, 0))
EmptyKey == <<>>
LongKey == Base64Encode(Fill(33, 171))
KeyStrings == {KeyAB, KeyCD, ShortKey, EmptyKey, LongKey}

(***************************************************************************)
(* State.                                                                   *)
(*                                                                         *)
(* The codec (CodecSpec): one caller of encrypt and decrypt.               *)
(* The client (Spec): one SafeChat instance and its concurrent calls of    *)
(* request.                                                                 *)
(***************************************************************************)
VARIABLES
    \* codec: the caller's position, "input", "encrypted" or "decrypted"
    cpc,
    \* codec: the arguments of encrypt
    plaintext, encKey,
    \* every encrypt call made so far: [key, plaintext, random, result]
    history,
    \* codec: the payload the caller holds, and where it comes from: [kind,
    \* field], kind "received" (from the server), "none" (as encrypt returned
    \* it), or how one field of encrypt's payload was altered since
    payload, tampered,
    \* codec: the key handed to decrypt and what decrypt returned or threw
    decKey, decrypted,
    \* client: this.encryptionKey (Undefined when not given) and this.timeout
    encryptionKey, timeout,
    \* the responses the server may give: "any" of Responses, or "plain" ones
    server,
    \* per call: "idle", "fetching" (awaiting fetch), "body" (awaiting
    \* res.json()), "done"
    pc,
    \* per call: the body argument of request
    body,
    \* per call: what fetch was given: [sent, method, encrypted, payload]
    sent,
    \* per call: the timeout timer, "none", "pending", "fired" or "cleared"
    timer,
    \* per call: controller.signal.aborted
    aborted,
    \* per call: whether this.timeout ms have passed since the timer was armed
    \* while the call was still running
    elapsed,
    \* per call: the response fetch resolved with
    res,
    \* per call: whether decrypt was called on the response
    decoded,
    \* per call: [state, value, error], state "pending", "returned" or "threw"
    outcome

cvars == <<cpc, plaintext, encKey, payload, tampered, decKey, decrypted>>
nvars == <<encryptionKey, timeout, server, pc, body, sent, timer, aborted, elapsed, res,
           decoded, outcome>>
vars == <<cvars, history, nvars>>

NoTamper == [kind |-> "none", field |-> <<>>]
Received == [kind |-> "received", field |-> <<>>]
NoResult == [ok |-> FALSE, value |-> Undefined, error |-> NoError]

HistoryEntry(key, text, random, result) ==
    [key |-> key, plaintext |-> text, random |-> random, result |-> result]

(***************************************************************************)
(* The codec's caller: encrypt, possibly alter the envelope, decrypt.      *)
(***************************************************************************)
FieldNames == {IvName, TagName, DataName}

\* the envelope with one field replaced
WithField(env, name, value) ==
    JObj([i \in 1..Len(env.o) |->
            IF env.o[i].k = name THEN Member(name, value) ELSE env.o[i]])

\* the envelope without one field
WithoutField(env, name) == JObj(SelectSeq(env.o, LAMBDA m : m.k # name))

\* the bytes with byte pos changed by delta
FlipByte(bytes, pos, delta) ==
    [bytes EXCEPT ![pos] = (bytes[pos] + delta) % 256]

\* how one byte is changed
ByteDeltas == {1}

CodecEncrypt ==
    /\ cpc \in {"input", "encrypted"}
    /\ tampered \in {Received, NoTamper}
    /\ Len(history) < MaxEncrypts
    /\ \E random \in RandomBytes(IV_BYTES) :
          LET result == encrypt(plaintext, encKey, random)
          IN  /\ history' = Append(history,
                                   HistoryEntry(encKey, plaintext, random, result))
              /\ payload' = IF result.ok THEN result.value ELSE payload
              /\ tampered' = IF result.ok THEN NoTamper ELSE tampered
    /\ cpc' = "encrypted"
    /\ UNCHANGED <<plaintext, encKey, decKey, decrypted, nvars>>

\* one byte of the nonce, the tag or the ciphertext is changed
CodecTamper ==
    /\ cpc = "encrypted"
    /\ tampered = NoTamper
    /\ Len(history) = 1
    /\ \E name \in FieldNames, delta \in ByteDeltas :
          LET bytes == Base64Decode(Get(payload, name).s)
          IN  \E pos \in 1..Len(bytes) :
                 /\ payload' = WithField(payload, name,
                                  JStr(Base64Encode(FlipByte(bytes, pos, delta))))
                 /\ tampered' = [kind |-> "byte", field |-> name]
    /\ UNCHANGED <<cpc, plaintext, encKey, history, decKey, decrypted, nvars>>

\* a field is removed, or its base64 text is damaged: a character outside the
\* alphabet is put in front, or its last two characters are cut off
CodecMalform ==
    /\ cpc = "encrypted"
    /\ tampered = NoTamper
    /\ Len(history) = 1
    /\ \E name \in FieldNames :
          LET text == Get(payload, name).s
          IN  \/ /\ payload' = WithField(payload, name, JStr(<<33>> \o text))
                 /\ tampered' = [kind |-> "badchar", field |-> name]
              \/ /\ payload' = WithoutField(payload, name)
                 /\ tampered' = [kind |-> "missing", field |-> name]
              \/ /\ Len(text) >= 2
                 /\ payload' = WithField(payload, name,
                                         JStr(SubSeq(text, 1, Len(text) - 2)))
                 /\ tampered' = [kind |-> "cut", field |-> name]
    /\ UNCHANGED <<cpc, plaintext, encKey, history, decKey, decrypted, nvars>>

\* decrypt is called on the payload received, on the payload of the first
\* encrypt call, or on what was made of it; a payload that was changed is
\* decrypted under the keys of 32 bytes
CodecDecrypt ==
    /\ cpc \in {"input", "encrypted"}
    /\ Len(history) <= 1
    /\ \E key \in KeyStrings :
          /\ tampered \in {Received, NoTamper} \/ ~KeyRejected(Base64Decode(key))
          /\ decKey' = key
          /\ decrypted' = decrypt(payload, key)
    /\ cpc' = "decrypted"
    /\ UNCHANGED <<plaintext, encKey, history, payload, tampered, nvars>>

(***************************************************************************)
(* SafeChat.request (src/client.ts).                                        *)
(***************************************************************************)
Calls == {"c1", "c2"}

\* `if (this.encryptionKey)`: a key was given and is not the empty string
KeyConfigured(key) == key # Undefined /\ key # <<>>

\* a JavaScript value used as a condition
Truthy(v) ==
    ~(v.t \in {"undefined", "null", "false"} \/ (v.t = "num" /\ v.n = 0)
      \/ (v.t = "str" /\ v.s = <<>>))

NoRequest == [sent |-> FALSE, method |-> "none", encrypted |-> FALSE,
              payload |-> Undefined]
Fetch(method, encrypted, text) ==
    [sent |-> TRUE, method |-> method, encrypted |-> encrypted, payload |-> text]

\* a variant of BuildRequest: the key is ignored and the body goes out as
\* plain JSON
BuildRequestPlain(key, b, random) ==
    IF b.t # "undefined"
    THEN Ok(Fetch("POST", FALSE, JsonStringify(b)))
    ELSE Ok(Fetch("GET", FALSE, Undefined))

\* lines 161-180: the headers and the payload given to fetch, or what
\* encrypt throws; random is what randomBytes returns if encrypt is called
BuildRequest(key, b, random) ==
    IF b.t # "undefined"
    THEN IF KeyConfigured(key)
         THEN LET encrypted == encrypt(JsonStringify(b), key, random)
              IN  IF encrypted.ok
                  THEN Ok(Fetch("POST", TRUE, JsonStringify(encrypted.value)))
                  ELSE encrypted
         ELSE Ok(Fetch("POST", FALSE, JsonStringify(b)))
    ELSE Ok(Fetch("GET", FALSE, Undefined))

StatusText(status) ==
    CASE status = 200 -> <<79, 75>>
      [] status = 404 -> <<78, 111, 116, 32, 70, 111, 117, 110, 100>>
      [] OTHER        -> <<69, 114, 114, 111, 114>>

ErrorName == <<101, 114, 114, 111, 114>>

Response(status, encrypted, text) ==
    [status |-> status, ok |-> (status >= 200 /\ status <= 299),
     statusText |-> StatusText(status), encrypted |-> encrypted, text |-> text]
NoResponse == Response(0, "none", <<>>)

Pending == [state |-> "pending", value |-> JUndefined, error |-> NoError]
Returned(v) == [state |-> "returned", value |-> v, error |-> NoError]
Threw(e) == [state |-> "threw", value |-> JUndefined, error |-> e]

\* res.json(): the body parsed, or the error of a body that could not be read
ResJson(r, bodyRead) ==
    IF bodyRead THEN JsonParse(r.text) ELSE Throw(Err("BodyReadError", NoInfo))

\* lines 202-210: the SafeChatError of a response that is not ok
\* (info: message, status, body)
ErrorOutcome(r, bodyRead) ==
    LET json      == ResJson(r, bodyRead)
        errorBody == IF json.ok THEN json.value
                     ELSE JObj(<<Member(ErrorName, JStr(r.statusText))>>)
    IN  IF errorBody.t = "null"
        \* errorBody.error of null
        THEN Threw(Err("TypeError", NoInfo))
        ELSE LET e == Get(errorBody, ErrorName)
                 message == IF Truthy(e) THEN e
                            ELSE JStr(<<72, 84, 84, 80, 32>> \o Digits(r.status))
             IN  Threw(Err("SafeChatError", <<message, r.status, errorBody>>))

\* line 213
ResEncrypted(r) == r.encrypted = "true"

\* a variant of Decrypts: with a key, every response is decrypted
DecryptsWithKey(key, r) == KeyConfigured(key)

\* line 214: whether the response is decrypted
Decrypts(key, r) == ResEncrypted(r) /\ KeyConfigured(key)

\* lines 212-220: the result of a response that is ok
SuccessOutcome(key, r, bodyRead) ==
    LET json == ResJson(r, bodyRead)
    IN  IF ~json.ok THEN Threw(json.error)
        ELSE IF Decrypts(key, r)
        THEN LET text == decrypt(json.value, key)
             IN  IF ~text.ok THEN Threw(text.error)
                 ELSE LET parsed == JsonParse(text.value)
                      IN  IF parsed.ok THEN Returned(parsed.value)
                          ELSE Threw(parsed.error)
        ELSE Returned(json.value)

\* lines 202-220: what request returns or throws once res.json() has settled
HandleResponse(key, r, bodyRead) ==
    IF ~r.ok THEN ErrorOutcome(r, bodyRead) ELSE SuccessOutcome(key, r, bodyRead)

\* whether decrypt is called while the response is handled
DecryptCalled(key, r, bodyRead) ==
    r.ok /\ ResJson(r, bodyRead).ok /\ Decrypts(key, r)

(***************************************************************************)
(* The callers' bodies and the server's responses.                          *)
(***************************************************************************)
TextName == <<116, 101, 120, 116>>
SessionName == <<115, 105, 100>>
SafeName == <<115, 97, 102, 101>>

\* no body, or a body with an unpaired surrogate in a string and a property
\* set to undefined
Bodies ==
    {JUndefined,
     JObj(<<Member(TextName, JStr(<<97, 55356>>)), Member(SessionName, JUndefined)>>)}

ClientKeys == {Undefined, EmptyKey, KeyAB, ShortKey}

\* what the server answers with, and its envelope of it
ServerPayload == JObj(<<Member(SafeName, JTrue)>>)
ServerNonce == [i \in 1..IV_BYTES |-> (5 * i + 3) % 256]
ServerEnvelope(text, key) == Seal(Base64Decode(key), ServerNonce, text)

PlainText == JsonStringify(ServerPayload)
HtmlText == <<60, 104, 62>>
NullText == JsonStringify(JNull)
ErrorText == JsonStringify(JObj(<<Member(ErrorName, JStr(<<110, 111>>))>>))
EnvAB == ServerEnvelope(PlainText, KeyAB)
EnvABText == JsonStringify(EnvAB)
EnvCDText == JsonStringify(ServerEnvelope(PlainText, KeyCD))
EnvBadCharText ==
    JsonStringify(WithField(EnvAB, DataName,
                            JStr(<<33>> \o Get(EnvAB, DataName).s)))
EnvNoTagText == JsonStringify(WithoutField(EnvAB, TagName))
EnvOfHtmlText == JsonStringify(ServerEnvelope(HtmlText, KeyAB))

Responses ==
    {Response(200, "none", PlainText),
     Response(200, "true", EnvABText),
     Response(200, "true", EnvCDText),
     Response(200, "true", EnvBadCharText),
     Response(200, "true", EnvNoTagText),
     Response(200, "true", EnvOfHtmlText),
     Response(200, "true", PlainText),
     Response(200, "none", EnvABText),
     Response(200, "none", HtmlText),
     Response(404, "none", ErrorText),
     Response(500, "none", NullText),
     Response(500, "true", HtmlText),
     Response(404, "true", EnvABText)}

\* a server that does not encrypt
PlainResponses ==
    {Response(200, "none", PlainText), Response(404, "none", ErrorText)}

ResponsesOf(kind) == IF kind = "plain" THEN PlainResponses ELSE Responses

(***************************************************************************)
(* The steps of one call of request.                                        *)
(***************************************************************************)
\* a variant of ClearTimeout: the timer is left as it is
KeepTimeout(t) == t

\* clearTimeout(timer)
ClearTimeout(t) == IF t = "pending" THEN "cleared" ELSE t

\* lines 161-192: the request is built and given to fetch with the timer
\* armed, or encrypt throws before anything is armed or sent
Request(c) ==
    /\ pc[c] = "idle"
    /\ \E b \in Bodies, random \in RandomBytes(IV_BYTES) :
          LET req == BuildRequest(encryptionKey, b, random)
              text == JsonStringify(b)
          IN  /\ body' = [body EXCEPT ![c] = b]
              /\ history' =
                    IF b.t # "undefined" /\ KeyConfigured(encryptionKey)
                    THEN Append(history,
                                HistoryEntry(encryptionKey, text, random,
                                             encrypt(text, encryptionKey, random)))
                    ELSE history
              /\ IF req.ok
                 THEN /\ sent' = [sent EXCEPT ![c] = req.value]
                      /\ timer' = [timer EXCEPT ![c] = "pending"]
                      /\ pc' = [pc EXCEPT ![c] = "fetching"]
                      /\ UNCHANGED outcome
                 ELSE /\ outcome' = [outcome EXCEPT ![c] = Threw(req.error)]
                      /\ pc' = [pc EXCEPT ![c] = "done"]
                      /\ UNCHANGED <<sent, timer>>
    /\ UNCHANGED <<cvars, encryptionKey, timeout, server, aborted, elapsed, res, decoded>>

\* this.timeout ms after the timer was armed: a timer still pending fires and
\* aborts the controller (line 183)
DeadlineElapses(c) ==
    /\ pc[c] \in {"fetching", "body"}
    /\ ~elapsed[c]
    /\ elapsed' = [elapsed EXCEPT ![c] = TRUE]
    /\ IF timer[c] = "pending"
       THEN /\ timer' = [timer EXCEPT ![c] = "fired"]
            /\ aborted' = [aborted EXCEPT ![c] = TRUE]
       ELSE UNCHANGED <<timer, aborted>>
    /\ UNCHANGED <<cvars, history, encryptionKey, timeout, server, pc, body, sent, res,
                   decoded, outcome>>

\* lines 193-196, 199: the aborted fetch rejects with an AbortError
FetchAborts(c) ==
    /\ pc[c] = "fetching"
    /\ aborted[c]
    /\ outcome' = [outcome EXCEPT ![c] = Threw(Err("Timeout", <<timeout>>))]
    /\ timer' = [timer EXCEPT ![c] = ClearTimeout(timer[c])]
    /\ pc' = [pc EXCEPT ![c] = "done"]
    /\ UNCHANGED <<cvars, history, encryptionKey, timeout, server, body, sent, aborted,
                   elapsed, res, decoded>>

\* lines 197, 199: fetch rejects with a transport error, which is rethrown
FetchFails(c) ==
    /\ pc[c] = "fetching"
    /\ ~aborted[c]
    /\ outcome' = [outcome EXCEPT ![c] = Threw(Err("FetchError", NoInfo))]
    /\ timer' = [timer EXCEPT ![c] = ClearTimeout(timer[c])]
    /\ pc' = [pc EXCEPT ![c] = "done"]
    /\ UNCHANGED <<cvars, history, encryptionKey, timeout, server, body, sent, aborted,
                   elapsed, res, decoded>>

\* lines 187-192, 199: fetch resolves with the response's status and headers;
\* the timer is cleared and request goes on to await res.json()
FetchResolves(c) ==
    /\ pc[c] = "fetching"
    /\ ~aborted[c]
    /\ \E r \in ResponsesOf(server) : res' = [res EXCEPT ![c] = r]
    /\ timer' = [timer EXCEPT ![c] = ClearTimeout(timer[c])]
    /\ pc' = [pc EXCEPT ![c] = "body"]
    /\ UNCHANGED <<cvars, history, encryptionKey, timeout, server, body, sent, aborted,
                   elapsed, decoded, outcome>>

\* lines 202-220: res.json() settles (the body was read, or reading it
\* failed) and request returns or throws
BodySettles(c) ==
    /\ pc[c] = "body"
    /\ \E bodyRead \in BOOLEAN :
          /\ outcome' = [outcome EXCEPT
                            ![c] = HandleResponse(encryptionKey, res[c], bodyRead)]
          /\ decoded' = [decoded EXCEPT
                            ![c] = DecryptCalled(encryptionKey, res[c], bodyRead)]
    /\ pc' = [pc EXCEPT ![c] = "done"]
    /\ UNCHANGED <<cvars, history, encryptionKey, timeout, server, body, sent, timer,
                   aborted, elapsed, res>>

(***************************************************************************)
(* Specifications.                                                          *)
(***************************************************************************)
CodecIdle ==
    /\ plaintext = <<>>
    /\ encKey = <<>>
    /\ payload = JUndefined
    /\ tampered = Received
    /\ decKey = <<>>
    /\ decrypted = NoResult

\* options.timeout: not given (-1), or a number of milliseconds
TimeoutOptions == {-1, 5000}

\* the constructor, lines 81 and 83
Construct(options) ==
    /\ encryptionKey = options.encryptionKey
    /\ timeout = IF options.timeout = -1 THEN DEFAULT_TIMEOUT ELSE options.timeout

Options == [encryptionKey : ClientKeys, timeout : TimeoutOptions]

ClientIdle(pc0) ==
    /\ pc = pc0
    /\ body = [c \in Calls |-> JUndefined]
    /\ sent = [c \in Calls |-> NoRequest]
    /\ timer = [c \in Calls |-> "none"]
    /\ aborted = [c \in Calls |-> FALSE]
    /\ elapsed = [c \in Calls |-> FALSE]
    /\ res = [c \in Calls |-> NoResponse]
    /\ decoded = [c \in Calls |-> FALSE]
    /\ outcome = [c \in Calls |-> Pending]

\* new SafeChat(options), then one call of request
Init ==
    /\ cpc = "off"
    /\ CodecIdle
    /\ history = <<>>
    /\ \E options \in Options : Construct(options)
    /\ server = "any"
    /\ ClientIdle([c \in Calls |-> IF c = "c1" THEN "idle" ELSE "off"])

Next ==
    \E c \in Calls :
        \/ Request(c)
        \/ DeadlineElapses(c)
        \/ FetchAborts(c)
        \/ FetchFails(c)
        \/ FetchResolves(c)
        \/ BodySettles(c)

\* one call of request against a server that may answer anything
Spec == Init /\ [][Next]_vars

\* two concurrent calls of request against a server that does not encrypt
ConcurrentInit ==
    /\ cpc = "off"
    /\ CodecIdle
    /\ history = <<>>
    /\ \E options \in Options : Construct(options)
    /\ server = "plain"
    /\ ClientIdle([c \in Calls |-> "idle"])

ConcurrentSpec == ConcurrentInit /\ [][Next]_vars

\* the codec alone, on every plaintext and key of the bounds; the caller
\* starts with a payload received from the server
CodecInit ==
    /\ cpc = "input"
    /\ plaintext \in Strings
    /\ encKey \in KeyStrings
    /\ payload = EnvAB
    /\ tampered = Received
    /\ decKey = <<>>
    /\ decrypted = NoResult
    /\ history = <<>>
    /\ encryptionKey = Undefined
    /\ timeout = DEFAULT_TIMEOUT
    /\ server = "any"
    /\ ClientIdle([c \in Calls |-> "off"])

CodecNext == CodecEncrypt \/ CodecTamper \/ CodecMalform \/ CodecDecrypt

CodecSpec == CodecInit /\ [][CodecNext]_vars

(***************************************************************************)
(* Properties of the codec (CodecSpec).                                     *)
(***************************************************************************)
KeyBytes(keyBase64) == Base64Decode(keyBase64)
ValidKey(keyBase64) == Len(KeyBytes(keyBase64)) = 32

\* decrypt was given the untouched payload of encrypt and the key of encrypt
RoundTripDone ==
    /\ cpc = "decrypted"
    /\ tampered = NoTamper
    /\ decKey = encKey

\* C1 as stated: for every plaintext and every valid key, decrypt of the
\* payload of encrypt under the same key returns exactly the plaintext.
C1_RoundTrip == RoundTripDone => decrypted = Ok(plaintext)

\* C1, amended: for every plaintext string without unpaired surrogates and
\* every valid key, decrypt of the payload of encrypt under the same key
\* returns exactly the plaintext.
C1_RoundTripWellFormed ==
    (RoundTripDone /\ WellFormed(plaintext)) => decrypted = Ok(plaintext)

\* a surrogate pair went through encrypt and decrypt
C1_Witness ==
    /\ RoundTripDone
    /\ plaintext = <<55356, 57101>>
    /\ decrypted = Ok(plaintext)

\* C2: decrypt of a payload of encrypt in which one byte of the ciphertext,
\* the tag or the nonce was changed, under the same key, and decrypt of a
\* payload of encrypt under a different 32-byte key, throw the
\* authentication error and return no plaintext.
C2_Authentic ==
    (/\ cpc = "decrypted"
     /\ ValidKey(decKey)
     /\ \/ tampered.kind = "byte" /\ KeyBytes(decKey) = KeyBytes(encKey)
        \/ tampered.kind \in {"none", "byte"} /\ KeyBytes(decKey) # KeyBytes(encKey))
    => decrypted = Throw(Err("AuthenticationFailed", NoInfo))

\* decrypt refused a payload whose tag had one byte changed
C2_Witness ==
    /\ cpc = "decrypted"
    /\ tampered = [kind |-> "byte", field |-> TagName]
    /\ decKey = encKey
    /\ Len(plaintext) = MaxLen
    /\ decrypted.error.name = "AuthenticationFailed"

\* C7: encrypt and decrypt called with a key that does not decode to 32
\* bytes throw the key error, which reports 32 and the actual length, and
\* return neither a payload nor a plaintext.
C7_KeyLength ==
    /\ \A i \in 1..Len(history) :
          LET n == Len(KeyBytes(history[i].key))
          IN  n # 32 =>
                 history[i].result = Throw(Err("InvalidKeyLength", <<32, n>>))
    /\ cpc = "decrypted" =>
          LET n == Len(KeyBytes(decKey))
          IN  n # 32 => decrypted = Throw(Err("InvalidKeyLength", <<32, n>>))

\* encrypt refused the 33-byte key and decrypt the 16-byte key
C7_Witness ==
    /\ Len(history) = 1
    /\ encKey = LongKey
    /\ history[1].result.error = Err("InvalidKeyLength", <<32, 33>>)
    /\ cpc = "decrypted"
    /\ decKey = ShortKey
    /\ decrypted.error = Err("InvalidKeyLength", <<32, 16>>)

\* the iv and the ciphertext of the payload of encrypt call i
IvOf(i) == Get(history[i].result.value, IvName).s
DataOf(i) == Get(history[i].result.value, DataName).s

\* two successful encrypt calls under the same key
SameKeyCalls(i, j) ==
    /\ i < j
    /\ history[i].result.ok
    /\ history[j].result.ok
    /\ history[i].key = history[j].key

\* C9 as stated: no two payloads produced under the same key carry the same
\* nonce, and two encrypt calls with the same plaintext and key yield
\* different nonces and different ciphertexts.
C9_NonceFresh ==
    \A i, j \in 1..Len(history) :
        SameKeyCalls(i, j) =>
            /\ IvOf(i) # IvOf(j)
            /\ history[i].plaintext = history[j].plaintext => DataOf(i) # DataOf(j)

\* C9, amended: the nonce of every payload is the 12 bytes the random source
\* returned in that encrypt call, whatever the plaintext and the key; two
\* payloads under the same key carry the same nonce exactly when the random
\* source returned the same bytes twice.
C9_NonceFromRandom ==
    /\ \A i \in 1..Len(history) :
          history[i].result.ok =>
             /\ Base64Decode(IvOf(i)) = history[i].random
             /\ Len(Base64Decode(IvOf(i))) = 12
    /\ \A i, j \in 1..Len(history) :
          SameKeyCalls(i, j) =>
             (IvOf(i) = IvOf(j)) = (history[i].random = history[j].random)

\* two encrypt calls with the same plaintext and key drew different random
\* bytes and returned payloads with different nonces
C9_Witness ==
    /\ Len(history) = 2
    /\ SameKeyCalls(1, 2)
    /\ history[1].plaintext = history[2].plaintext
    /\ history[1].random # history[2].random
    /\ IvOf(1) # IvOf(2)

\* C10: decrypt of a payload that lacks one of its three fields, or in which
\* a field is not well-formed base64, throws an error of the kind
\* MalformedEnvelope: it neither reports an authentication failure nor
\* returns a plaintext.
C10_Malformed ==
    (/\ cpc = "decrypted"
     /\ tampered.kind \in {"missing", "badchar", "cut"}
     /\ ValidKey(decKey))
    => (~decrypted.ok /\ decrypted.error.name # "AuthenticationFailed")

(***************************************************************************)
(* Properties of request (Spec).                                            *)
(***************************************************************************)
\* the call has gone through lines 161-180
Started(c) == pc[c] \notin {"off", "idle"}

\* the call has ended after res.json() settled on a response
Answered(c) == pc[c] = "done" /\ res[c] # NoResponse

BodyPresent(c) == body[c].t # "undefined"

\* the text is the JSON of an object with exactly the members iv, tag and
\* data, each a string
IsWireEnvelope(text) ==
    LET env == JsonParse(text)
    IN  /\ env.ok
        /\ env.value.t = "obj"
        /\ Len(env.value.o) = 3
        /\ {env.value.o[i].k : i \in 1..3} = FieldNames
        /\ \A i \in 1..3 : env.value.o[i].v.t = "str"

\* C3: for every call, the request given to fetch carries X-Encrypted
\* exactly when the client has a key and the call has a body; in that case
\* the payload is the JSON of an {iv, tag, data} envelope whose decrypt under
\* the key is JSON.stringify(body); otherwise no X-Encrypted is sent and the
\* payload is JSON.stringify(body), or nothing when there is no body.  A call
\* that gives nothing to fetch is one whose encrypt threw the key error.
C3_Outbound ==
    \A c \in Calls :
        Started(c) =>
            LET keyed == KeyConfigured(encryptionKey) /\ BodyPresent(c)
            IN  IF sent[c].sent
                THEN /\ sent[c].encrypted = keyed
                     /\ IF keyed
                        THEN /\ IsWireEnvelope(sent[c].payload)
                             /\ decrypt(JsonParse(sent[c].payload).value,
                                        encryptionKey)
                                   = Ok(JsonStringify(body[c]))
                        ELSE sent[c].payload =
                                IF BodyPresent(c) THEN JsonStringify(body[c])
                                ELSE Undefined
                ELSE /\ keyed
                     /\ outcome[c].state = "threw"
                     /\ outcome[c].error.name = "InvalidKeyLength"

\* a body went out as an envelope, with X-Encrypted, under the 32-byte key
C3_Witness ==
    /\ encryptionKey = KeyAB
    /\ BodyPresent("c1")
    /\ sent["c1"].sent
    /\ sent["c1"].encrypted
    /\ IsWireEnvelope(sent["c1"].payload)
    /\ sent["c1"].payload # JsonStringify(body["c1"])

\* C4: a call of a client without a key that gets a success response with
\* x-encrypted: true fails (with UnexpectedEncryption); it never returns a
\* result.
C4_UnexpectedEncryption ==
    \A c \in Calls :
        (/\ Answered(c)
         /\ res[c].ok
         /\ ResEncrypted(res[c])
         /\ ~KeyConfigured(encryptionKey))
        => outcome[c].state = "threw"

\* C5: a call that gets a response whose status is not a success status
\* throws the SafeChatError that carries the status, whatever the key and
\* x-encrypted; decrypt is not called and nothing is returned.
C5_RequestFailed ==
    \A c \in Calls :
        (Answered(c) /\ ~res[c].ok)
        => /\ outcome[c].state = "threw"
           /\ outcome[c].error.name = "SafeChatError"
           /\ outcome[c].error.info[2] = res[c].status
           /\ ~decoded[c]

\* C6: a call whose deadline elapsed before it ended never returns a result
\* (it fails with the timeout error).
C6_Timeout ==
    \A c \in Calls :
        (pc[c] = "done" /\ elapsed[c]) => outcome[c].state # "returned"

\* C8: with a key, on a success response whose body is JSON, decrypt is
\* called exactly when x-encrypted is true; then the call returns the JSON
\* parse of decrypt(body, key), or throws what decrypt or the parse throws;
\* without x-encrypted the parsed body is returned as it is, whether or not
\* the request of the call was sent encrypted.  An envelope the server made
\* of its payload under the client's key comes back as that payload.
C8_Inbound ==
    \A c \in Calls :
        (/\ Answered(c)
         /\ res[c].ok
         /\ KeyConfigured(encryptionKey)
         /\ outcome[c].error.name # "BodyReadError"
         /\ JsonParse(res[c].text).ok)
        => LET json == JsonParse(res[c].text).value
           IN  /\ decoded[c] = ResEncrypted(res[c])
               /\ ~ResEncrypted(res[c]) => outcome[c] = Returned(json)
               /\ ResEncrypted(res[c]) =>
                     LET text == decrypt(json, encryptionKey)
                     IN  /\ outcome[c].state = "returned" =>
                               /\ text.ok
                               /\ JsonParse(text.value) = Ok(outcome[c].value)
                         /\ ~text.ok => outcome[c] = Threw(text.error)
                         /\ (encryptionKey = KeyAB /\ res[c].text = EnvABText)
                               => outcome[c] = Returned(ServerPayload)

\* a call that sent its body encrypted got the server's envelope with
\* x-encrypted: true and returned the server's payload
C8_Witness ==
    /\ encryptionKey = KeyAB
    /\ sent["c1"].encrypted
    /\ res["c1"] = Response(200, "true", EnvABText)
    /\ decoded["c1"]
    /\ outcome["c1"] = Returned(ServerPayload)

\* the client was given a key that does not decode to 32 bytes
InvalidKeyClient == encryptionKey # Undefined /\ ~ValidKey(encryptionKey)

\* C11: on a client constructed with a key that is not 32 bytes (the empty
\* key included) no call returns a result and no body is given to fetch in
\* plaintext.
C11_InvalidKeyClient ==
    InvalidKeyClient =>
        \A c \in Calls :
            /\ outcome[c].state # "returned"
            /\ ~(sent[c].sent /\ BodyPresent(c) /\ ~sent[c].encrypted)

(***************************************************************************)
(* Properties of concurrent calls (ConcurrentSpec).                         *)
(***************************************************************************)
\* no call that has ended has a timer pending, and only a call whose own
\* timer fired is aborted or throws the timeout error
TimerSettled ==
    \A c \in Calls :
        /\ pc[c] = "done" => timer[c] # "pending"
        /\ aborted[c] => timer[c] = "fired"
        /\ outcome[c].error.name = "Timeout" => timer[c] = "fired"

\* the step in which the timer of a call fires leaves every other call as
\* it was
TimerIsLocal ==
    \A c \in Calls :
        (timer[c] = "pending" /\ timer'[c] = "fired") =>
            \A d \in Calls \ {c} :
                /\ pc'[d] = pc[d]
                /\ timer'[d] = timer[d]
                /\ aborted'[d] = aborted[d]
                /\ res'[d] = res[d]
                /\ outcome'[d] = outcome[d]

\* C12: a call that armed its timer has cancelled it, or the timer has
\* fired, whenever the call has ended, on every path (result, SafeChatError,
\* decrypt or parse error, transport error, timeout); a timer that fires
\* aborts its own call only and changes nothing of a concurrent call.
C12_ScopedTimer == []TimerSettled /\ [][TimerIsLocal]_vars

\* of two concurrent calls, one timed out on its own timer while the other
\* returned its result with its timer cleared
C12_Witness ==
    /\ pc["c1"] = "done"
    /\ timer["c1"] = "fired"
    /\ outcome["c1"] = Threw(Err("Timeout", <<timeout>>))
    /\ pc["c2"] = "done"
    /\ timer["c2"] = "cleared"
    /\ ~aborted["c2"]
    /\ outcome["c2"].state = "returned"

=============================================================================
